---- MODULE Spec2Model ----
(***************************************************************************)
(* Property filtering of the Urban Investors site (src/unnamed/part_000,   *)
(* lines 1271-1648): the six filter controls of #propertySearchForm, the   *)
(* property cards of #properties-grid, filterProperties and its helpers,   *)
(* the results banner, clearAllFilters, and the hand-over of a selection   *)
(* from the index page to the properties page through the query string.    *)
(*                                                                         *)
(* Strings are TLA+ strings; TLC evaluates Len, SubSeq and \o on them, so  *)
(* String.prototype.includes, split, toLowerCase and parseInt are computed *)
(* character by character as the JavaScript engine computes them.          *)
(***************************************************************************)
EXTENDS Integers, Sequences, FiniteSets, TLC

VARIABLES
  page,           \* "index" | "properties": which document is loaded (l. 1604, 1618)
  search,         \* window.location.search without the leading "?" (l. 1627)
  loaded,         \* TRUE once the DOMContentLoaded handlers have run (l. 1602, 1651)
  cards,          \* the cards of #properties-grid, in document order (l. 1304)
  sel,            \* the values of the six controls of the form (l. 1297-1302)
  display,        \* card.style.display of each card, "" = never assigned (l. 1370)
  resultsCount,   \* textContent of #results-count, -1 = never assigned (l. 1388)
  clearHidden,    \* #clear-filters carries the class d-none (l. 1394)
  activeFilters,  \* textContent of #active-filters (l. 1401, 1403)
  timers,         \* pending setTimeout(filterProperties, 100) (l. 1647)
  lastRun,        \* whether filterProperties has run in this document, and the
                  \* control values its latest run read (l. 1297-1302)
  events,         \* user events handled so far (bounded by MaxEvents)
  sent,           \* whether this document was reached by the redirect of the
                  \* index page, and the control values
                  \* redirectToFilteredProperties read there (l. 1581-1586)
  controls,       \* the controls the document has: those for which
                  \* document.getElementById returns an element (l. 1297-1302)
  raised,         \* TRUE once a handler of this document has ended in an
                  \* uncaught TypeError (l. 1638-1644)
  lastEvent,      \* the caller of the latest filterProperties run in this
                  \* document: "timer" (l. 1647), "change" (l. 1289), "submit"
                  \* (l. 1282-1285), "clear" (l. 1508), "none" before any run
  href,           \* the URL last assigned to window.location.href while the
                  \* navigation to it has not committed, "" when none is
                  \* pending (l. 808, 1598)
  options,        \* the values the options of each <select> of the form
                  \* offer; the location is a text input (l. 1499-1503)
  deselected,     \* the selects that have no selected option (selectedIndex
                  \* -1) and so read "": those assigned a value none of their
                  \* options has (l. 1638-1644)
  called          \* whether the latest step called filterProperties

vars == <<page, search, loaded, cards, sel, display, resultsCount, clearHidden,
          activeFilters, timers, lastRun, events, sent, controls, raised,
          lastEvent, href, options, deselected, called>>

----------------------------------------------------------------------------
(* Bounds of the model *)

\* number of cards in #properties-grid
MaxCards == 2
\* user events (change, submit, click) handled in one run
MaxEvents == 2

----------------------------------------------------------------------------
(* JavaScript values and string primitives *)

\* null / undefined (what URLSearchParams.get returns for an absent name);
\* "<" occurs in no string of the model
Null == "<null>"

\* JavaScript truthiness of a string-or-null value
Truthy(v) == v # Null /\ v # ""

\* the i-th character (1-based) of s
CharAt(s, i) == SubSeq(s, i, i)

\* String.prototype.includes
Includes(s, t) ==
  \E i \in 0..(Len(s) - Len(t)) : SubSeq(s, i + 1, i + Len(t)) = t

\* position of the first occurrence of the one-character string c in s, or 0
IndexOf(s, c) ==
  IF \E i \in 1..Len(s) : CharAt(s, i) = c
  THEN CHOOSE i \in 1..Len(s) :
         /\ CharAt(s, i) = c
         /\ \A j \in 1..(i - 1) : CharAt(s, j) # c
  ELSE 0

\* String.prototype.split with a one-character separator: "" splits to [""]
RECURSIVE Split(_, _)
Split(s, c) ==
  LET i == IndexOf(s, c)
  IN IF i = 0 THEN <<s>>
     ELSE <<SubSeq(s, 1, i - 1)>> \o Split(SubSeq(s, i + 1, Len(s)), c)

\* Array.prototype.includes on an array of strings
ArrayIncludes(arr, v) == \E k \in 1..Len(arr) : arr[k] = v

UpperLetters == "ABCDEFGHIJKLMNOPQRSTUVWXYZ"
LowerLetters == "abcdefghijklmnopqrstuvwxyz"

\* each upper-case letter with its lower-case letter
LowerMap ==
  [c \in {CharAt(UpperLetters, i) : i \in 1..Len(UpperLetters)} |->
     CharAt(LowerLetters, CHOOSE i \in 1..Len(UpperLetters) : CharAt(UpperLetters, i) = c)]

LowerChar(c) == IF c \in DOMAIN LowerMap THEN LowerMap[c] ELSE c

\* String.prototype.toLowerCase
RECURSIVE ToLowerCase(_)
ToLowerCase(s) ==
  IF s = "" THEN "" ELSE LowerChar(CharAt(s, 1)) \o ToLowerCase(SubSeq(s, 2, Len(s)))

Digits == "0123456789"

IsDigit(c) == \E i \in 1..Len(Digits) : CharAt(Digits, i) = c

DigitValue(c) == (CHOOSE i \in 1..Len(Digits) : CharAt(Digits, i) = c) - 1

\* number of leading characters of s that are decimal digits
RECURSIVE DigitPrefixLen(_)
DigitPrefixLen(s) ==
  IF s # "" /\ IsDigit(CharAt(s, 1)) THEN 1 + DigitPrefixLen(SubSeq(s, 2, Len(s))) ELSE 0

\* value of a string of decimal digits
RECURSIVE DigitsValue(_)
DigitsValue(s) ==
  IF s = "" THEN 0
  ELSE 10 * DigitsValue(SubSeq(s, 1, Len(s) - 1)) + DigitValue(CharAt(s, Len(s)))

\* leading white space is skipped by parseInt
RECURSIVE TrimStart(_)
TrimStart(s) ==
  IF s # "" /\ CharAt(s, 1) = " " THEN TrimStart(SubSeq(s, 2, Len(s))) ELSE s

\* parseInt(s) with no radix given, for strings without a 0x prefix: white
\* space, an optional sign, the longest prefix of decimal digits; NaN when
\* there is no digit
ParseInt(s) ==
  LET t == TrimStart(s)
      neg == t # "" /\ CharAt(t, 1) = "-"
      signed == t # "" /\ CharAt(t, 1) \in {"-", "+"}
      u == IF signed THEN SubSeq(t, 2, Len(t)) ELSE t
      n == DigitPrefixLen(u)
  IN IF n = 0 THEN [nan |-> TRUE, num |-> 0]
     ELSE [nan |-> FALSE,
           num |-> IF neg THEN 0 - DigitsValue(SubSeq(u, 1, n))
                   ELSE DigitsValue(SubSeq(u, 1, n))]

----------------------------------------------------------------------------
(* The controls and the cards *)

\* the six controls of #propertySearchForm, by element id
Facets == {"propertyType", "budget", "bhk", "location", "possession", "amenities"}

\* the controls of the form that are <select> elements; #location is a text
\* input (l. 1499-1503 tell the two kinds apart)
SelectFacets == Facets \ {"location"}

\* every control at its empty value ("" is also the value of a select's
\* first, placeholder option)
EmptySelection ==
  [propertyType |-> "", budget |-> "", bhk |-> "", location |-> "",
   possession |-> "", amenities |-> ""]

\* One card of #properties-grid: its data-property-type, data-price-range,
\* data-bhk, data-status and data-amenities attributes and the text of its
\* .text-muted element.  An attribute that is missing reads as undefined and an
\* empty one as ""; the code only tests them for truthiness before use, so
\* both are written "".
Card(t, p, b, l, s, a) ==
  [propertyType |-> t, priceRange |-> p, bhk |-> b, location |-> l,
   status |-> s, amenities |-> a]

----------------------------------------------------------------------------
(* filterProperties and its helpers *)

\* checkBudgetMatch with a default branch that rejects
checkBudgetMatchDefaultFalse(budget, priceRange) ==
  CASE budget = "50-100"   -> priceRange = "50l" \/ priceRange = "1cr"
    [] budget = "100-250"  -> priceRange = "1cr" \/ priceRange = "2.5cr"
    [] budget = "250-500"  -> priceRange = "2.5cr" \/ priceRange = "5cr"
    [] budget = "500-1000" -> priceRange = "5cr" \/ priceRange = "10cr"
    [] budget = "1000+"    -> priceRange = "10cr" \/ priceRange = "on-request"
    [] OTHER               -> FALSE

\* checkBudgetMatch comparing each bucket with one price range only
checkBudgetMatchExact(budget, priceRange) ==
  CASE budget = "50-100"   -> priceRange = "50l"
    [] budget = "100-250"  -> priceRange = "1cr"
    [] budget = "250-500"  -> priceRange = "2.5cr"
    [] budget = "500-1000" -> priceRange = "5cr"
    [] budget = "1000+"    -> priceRange = "on-request"
    [] OTHER               -> TRUE

checkBudgetMatch(budget, priceRange) ==
  CASE budget = "50-100"   -> priceRange = "50l" \/ priceRange = "1cr"
    [] budget = "100-250"  -> priceRange = "1cr" \/ priceRange = "2.5cr"
    [] budget = "250-500"  -> priceRange = "2.5cr" \/ priceRange = "5cr"
    [] budget = "500-1000" -> priceRange = "5cr" \/ priceRange = "10cr"
    [] budget = "1000+"    -> priceRange = "10cr" \/ priceRange = "on-request"
    [] OTHER               -> TRUE

\* checkBhkMatch without the "5+" case
checkBhkMatchLiteral(bhk, cardBhk) ==
  IF ~Truthy(cardBhk) THEN TRUE
  ELSE ArrayIncludes(Split(cardBhk, ","), bhk)

checkBhkMatch(bhk, cardBhk) ==
  IF ~Truthy(cardBhk) THEN TRUE
  ELSE LET bhkOptions == Split(cardBhk, ",")
       IN IF bhk = "5+"
          THEN \E k \in 1..Len(bhkOptions) :
                 LET num == ParseInt(bhkOptions[k])
                 IN ~num.nan /\ num.num >= 5
          ELSE ArrayIncludes(bhkOptions, bhk)

\* The names under which an object literal holds a property it did not
\* define: those it inherits from Object.prototype.
ObjectPrototypeKeys ==
  {"constructor", "toString", "toLocaleString", "valueOf", "hasOwnProperty",
   "isPrototypeOf", "propertyIsEnumerable", "__proto__", "__defineGetter__",
   "__defineSetter__", "__lookupGetter__", "__lookupSetter__"}

\* what a template literal makes of the property inherited under k: the
\* source text of a native function (as V8 prints it), of Object.prototype
\* itself for __proto__
InheritedText(k) ==
  IF k = "__proto__" THEN "[object Object]"
  ELSE "function " \o (IF k = "constructor" THEN "Object" ELSE k)
       \o "() { [native code] }"

\* the keys of amenityMap, each mapped to itself
amenityMap ==
  [k \in {"pool", "gym", "club", "security", "solar"} |-> k]

\* checkAmenitiesMatch looking for the amenity anywhere in the attribute
checkAmenitiesMatchSubstring(amenity, cardAmenities) ==
  IF ~Truthy(cardAmenities) THEN TRUE
  ELSE Includes(cardAmenities,
                IF amenity \in DOMAIN amenityMap THEN amenityMap[amenity] ELSE amenity)

\* amenityMap[amenity] || amenity is a function or an object, not a string,
\* for a name the literal inherits, and no option of the card equals it
checkAmenitiesMatch(amenity, cardAmenities) ==
  IF ~Truthy(cardAmenities) THEN TRUE
  ELSE LET amenityOptions == Split(cardAmenities, ",")
           mappedAmenity ==
             IF amenity \in DOMAIN amenityMap /\ Truthy(amenityMap[amenity])
             THEN amenityMap[amenity] ELSE amenity
       IN IF amenity \notin DOMAIN amenityMap /\ amenity \in ObjectPrototypeKeys
          THEN FALSE
          ELSE ArrayIncludes(amenityOptions, mappedAmenity)

\* The six blocks of the forEach body.  Each takes showProperty as the blocks
\* before it left it and returns showProperty as it leaves it.
TypeBlock(showProperty, propertyType, card) ==
  IF Truthy(propertyType) /\ showProperty
  THEN IF Truthy(card.propertyType) /\ ~Includes(card.propertyType, propertyType)
       THEN FALSE ELSE showProperty
  ELSE showProperty

\* the budget block assigning the match, whatever the blocks before it left
BudgetBlockAssigns(showProperty, budget, card) ==
  IF Truthy(budget)
  THEN IF Truthy(card.priceRange)
       THEN checkBudgetMatch(budget, card.priceRange) ELSE TRUE
  ELSE showProperty

BudgetBlock(showProperty, budget, card) ==
  IF Truthy(budget) /\ showProperty
  THEN IF Truthy(card.priceRange) /\ ~checkBudgetMatch(budget, card.priceRange)
       THEN FALSE ELSE showProperty
  ELSE showProperty

\* the BHK block hiding a card that has no data-bhk
BhkBlockFailClosed(showProperty, bhk, card) ==
  IF Truthy(bhk) /\ showProperty
  THEN IF ~Truthy(card.bhk) \/ ~checkBhkMatch(bhk, card.bhk)
       THEN FALSE ELSE showProperty
  ELSE showProperty

BhkBlock(showProperty, bhk, card) ==
  IF Truthy(bhk) /\ showProperty
  THEN IF Truthy(card.bhk) /\ ~checkBhkMatch(bhk, card.bhk)
       THEN FALSE ELSE showProperty
  ELSE showProperty

\* location is the control's value already lower-cased
LocationBlock(showProperty, location, card) ==
  IF Truthy(location) /\ showProperty
  THEN LET cardLocation == ToLowerCase(card.location)
       IN IF Truthy(cardLocation) /\ ~Includes(cardLocation, location)
          THEN FALSE ELSE showProperty
  ELSE showProperty

\* the possession block with its comparison inverted
PossessionBlockInverted(showProperty, possession, card) ==
  IF Truthy(possession) /\ showProperty
  THEN IF Truthy(card.status) /\ card.status = possession
       THEN FALSE ELSE showProperty
  ELSE showProperty

\* the possession block entered whether a status is selected or not
PossessionBlockUnguarded(showProperty, possession, card) ==
  IF showProperty
  THEN IF Truthy(card.status) /\ card.status # possession
       THEN FALSE ELSE showProperty
  ELSE showProperty

PossessionBlock(showProperty, possession, card) ==
  IF Truthy(possession) /\ showProperty
  THEN IF Truthy(card.status) /\ card.status # possession
       THEN FALSE ELSE showProperty
  ELSE showProperty

\* the amenities block assigning the match to showProperty outright
AmenitiesBlockAssigns(showProperty, amenities, card) ==
  IF Truthy(amenities)
  THEN ~(Truthy(card.amenities) /\ ~checkAmenitiesMatch(amenities, card.amenities))
  ELSE showProperty

AmenitiesBlock(showProperty, amenities, card) ==
  IF Truthy(amenities) /\ showProperty
  THEN IF Truthy(card.amenities) /\ ~checkAmenitiesMatch(amenities, card.amenities)
       THEN FALSE ELSE showProperty
  ELSE showProperty

\* the controls read without lower-casing the location
ReadControlsRaw(s) == s

\* what filterProperties reads from the controls: the location lower-cased
ReadControls(s) == [s EXCEPT !.location = ToLowerCase(s.location)]

\* showProperty at the end of the forEach body for one card, r the values read
ShowProperty(card, r) ==
  LET s1 == TypeBlock(TRUE, r.propertyType, card)
      s2 == BudgetBlock(s1, r.budget, card)
      s3 == BhkBlock(s2, r.bhk, card)
      s4 == LocationBlock(s3, r.location, card)
      s5 == PossessionBlock(s4, r.possession, card)
      s6 == AmenitiesBlock(s5, r.amenities, card)
  IN s6

\* the forEach counting every card it visits
ForEachCardCountsAll(cs, r) ==
  [display |-> [i \in 1..Len(cs) |->
                  IF ShowProperty(cs[i], r) THEN "block" ELSE "none"],
   visibleCount |-> Len(cs)]

\* The forEach over the cards cs, in document order, r the values read:
\* card.style.display of every card and visibleCount when the loop ends.
RECURSIVE ForEachCard(_, _)
ForEachCard(cs, r) ==
  IF cs = <<>> THEN [display |-> <<>>, visibleCount |-> 0]
  ELSE LET before == ForEachCard(SubSeq(cs, 1, Len(cs) - 1), r)
           showProperty == ShowProperty(cs[Len(cs)], r)
       IN [display |->
             Append(before.display, IF showProperty THEN "block" ELSE "none"),
           visibleCount |->
             IF showProperty THEN before.visibleCount + 1 ELSE before.visibleCount]

\* hasFiltersApplied not looking at the amenities control
hasFiltersAppliedFive(s) ==
  \/ Truthy(s.propertyType) \/ Truthy(s.budget) \/ Truthy(s.bhk)
  \/ Truthy(s.location) \/ Truthy(s.possession)

hasFiltersApplied(s) ==
  \/ Truthy(s.propertyType) \/ Truthy(s.budget) \/ Truthy(s.bhk)
  \/ Truthy(s.location) \/ Truthy(s.possession) \/ Truthy(s.amenities)

budgetLabels ==
  [k \in {"50-100", "100-250", "250-500", "500-1000", "1000+"} |->
     CASE k = "50-100"   -> "₹50L - ₹1Cr"
       [] k = "100-250"  -> "₹1Cr - ₹2.5Cr"
       [] k = "250-500"  -> "₹2.5Cr - ₹5Cr"
       [] k = "500-1000" -> "₹5Cr - ₹10Cr"
       [] k = "1000+"    -> "₹10Cr+"]

\* getBudgetLabel returning the value it is given, whatever the table holds
getBudgetLabelRaw(budgetValue) == budgetValue

\* budgetLabels[budgetValue] || budgetValue, in the text of the template literal
getBudgetLabel(budgetValue) ==
  IF budgetValue \in DOMAIN budgetLabels THEN budgetLabels[budgetValue]
  ELSE IF budgetValue \in ObjectPrototypeKeys THEN InheritedText(budgetValue)
  ELSE budgetValue

amenityLabels ==
  [k \in {"pool", "gym", "club", "security", "solar"} |->
     CASE k = "pool"     -> "Swimming Pool"
       [] k = "gym"      -> "Gymnasium"
       [] k = "club"     -> "Clubhouse"
       [] k = "security" -> "24/7 Security"
       [] k = "solar"    -> "Solar Power"]

\* amenityLabels[amenityValue] || amenityValue, in the text of the template literal
getAmenityLabel(amenityValue) ==
  IF amenityValue \in DOMAIN amenityLabels THEN amenityLabels[amenityValue]
  ELSE IF amenityValue \in ObjectPrototypeKeys THEN InheritedText(amenityValue)
  ELSE amenityValue

\* getActiveFilters without an entry for the location
getActiveFiltersNoLocation(s) ==
  (IF Truthy(s.propertyType) THEN <<"Type: " \o s.propertyType>> ELSE <<>>)
  \o (IF Truthy(s.budget) THEN <<"Budget: " \o getBudgetLabel(s.budget)>> ELSE <<>>)
  \o (IF Truthy(s.bhk) THEN <<"BHK: " \o s.bhk>> ELSE <<>>)
  \o (IF Truthy(s.possession) THEN <<"Status: " \o s.possession>> ELSE <<>>)
  \o (IF Truthy(s.amenities) THEN <<"Amenities: " \o getAmenityLabel(s.amenities)>> ELSE <<>>)

getActiveFilters(s) ==
  (IF Truthy(s.propertyType) THEN <<"Type: " \o s.propertyType>> ELSE <<>>)
  \o (IF Truthy(s.budget) THEN <<"Budget: " \o getBudgetLabel(s.budget)>> ELSE <<>>)
  \o (IF Truthy(s.bhk) THEN <<"BHK: " \o s.bhk>> ELSE <<>>)
  \o (IF Truthy(s.location) THEN <<"Location: " \o s.location>> ELSE <<>>)
  \o (IF Truthy(s.possession) THEN <<"Status: " \o s.possession>> ELSE <<>>)
  \o (IF Truthy(s.amenities) THEN <<"Amenities: " \o getAmenityLabel(s.amenities)>> ELSE <<>>)

\* Array.prototype.join
RECURSIVE Join(_, _)
Join(arr, sep) ==
  IF arr = <<>> THEN ""
  ELSE IF Len(arr) = 1 THEN arr[1]
  ELSE arr[1] \o sep \o Join(Tail(arr), sep)

\* the text updateFilterResultsInfo writes into #active-filters
ActiveFiltersText(s) ==
  LET filters == getActiveFilters(s)
  IN IF Len(filters) > 0 THEN "(" \o Join(filters, ", ") \o ")" ELSE ""

----------------------------------------------------------------------------
(* URLSearchParams: the application/x-www-form-urlencoded serializer and   *)
(* parser of the browser                                                   *)

\* characters the serializer leaves as they are
UrlSafe == "abcdefghijklmnopqrstuvwxyzABCDEFGHIJKLMNOPQRSTUVWXYZ0123456789*-._"

\* percent codes of the other ASCII characters that occur in the model
PercentCodes ==
  <<[ch |-> "+", code |-> "%2B"], [ch |-> ",", code |-> "%2C"],
    [ch |-> "&", code |-> "%26"], [ch |-> "=", code |-> "%3D"],
    [ch |-> "%", code |-> "%25"], [ch |-> "/", code |-> "%2F"]>>

\* the serializer leaving "+" as it is, as a query built by concatenation would
EncodeCharPlusRaw(c) ==
  IF Includes(UrlSafe, c) \/ c = "+" THEN c
  ELSE IF c = " " THEN "+"
  ELSE IF \E k \in 1..Len(PercentCodes) : PercentCodes[k].ch = c
  THEN PercentCodes[CHOOSE k \in 1..Len(PercentCodes) : PercentCodes[k].ch = c].code
  ELSE c

EncodeChar(c) ==
  IF Includes(UrlSafe, c) THEN c
  ELSE IF c = " " THEN "+"
  ELSE IF \E k \in 1..Len(PercentCodes) : PercentCodes[k].ch = c
  THEN PercentCodes[CHOOSE k \in 1..Len(PercentCodes) : PercentCodes[k].ch = c].code
  ELSE c

RECURSIVE UrlEncode(_)
UrlEncode(s) ==
  IF s = "" THEN "" ELSE EncodeChar(CharAt(s, 1)) \o UrlEncode(SubSeq(s, 2, Len(s)))

\* "+" is a space; a "%" followed by two hex digits is the byte they name (in
\* either case of the hex digits); any other "%" stands for itself
RECURSIVE UrlDecode(_)
UrlDecode(s) ==
  IF s = "" THEN ""
  ELSE IF CharAt(s, 1) = "+" THEN " " \o UrlDecode(SubSeq(s, 2, Len(s)))
  ELSE IF /\ CharAt(s, 1) = "%"
          /\ Len(s) >= 3
          /\ \E k \in 1..Len(PercentCodes) :
               ToLowerCase(PercentCodes[k].code) = ToLowerCase(SubSeq(s, 1, 3))
  THEN PercentCodes[CHOOSE k \in 1..Len(PercentCodes) :
                      ToLowerCase(PercentCodes[k].code) = ToLowerCase(SubSeq(s, 1, 3))].ch
       \o UrlDecode(SubSeq(s, 4, Len(s)))
  ELSE CharAt(s, 1) \o UrlDecode(SubSeq(s, 2, Len(s)))

\* URLSearchParams.prototype.toString of a list of [name, value] entries
RECURSIVE Serialize(_)
Serialize(params) ==
  IF params = <<>> THEN ""
  ELSE UrlEncode(params[1].name) \o "=" \o UrlEncode(params[1].value)
       \o (IF Len(params) > 1 THEN "&" \o Serialize(Tail(params)) ELSE "")

\* one "name=value" piece of a query: split at the first "="
ParsePiece(piece) ==
  LET i == IndexOf(piece, "=")
  IN IF i = 0 THEN [name |-> UrlDecode(piece), value |-> ""]
     ELSE [name |-> UrlDecode(SubSeq(piece, 1, i - 1)),
           value |-> UrlDecode(SubSeq(piece, i + 1, Len(piece)))]

RECURSIVE ParsePieces(_)
ParsePieces(pieces) ==
  IF pieces = <<>> THEN <<>>
  ELSE (IF pieces[1] = "" THEN <<>> ELSE <<ParsePiece(pieces[1])>>)
       \o ParsePieces(Tail(pieces))

\* new URLSearchParams(query): the entries of the query, empty pieces skipped
ParseQuery(query) == ParsePieces(Split(query, "&"))

\* URLSearchParams.prototype.get: the value of the first entry called name
UrlGet(params, name) ==
  IF \E k \in 1..Len(params) : params[k].name = name
  THEN params[CHOOSE k \in 1..Len(params) :
                /\ params[k].name = name
                /\ \A j \in 1..(k - 1) : params[j].name # name].value
  ELSE Null

----------------------------------------------------------------------------
(* The hand-over of the selection through the query string *)

\* The setter of value on a control of the form.  A <select> selects its first
\* option of that value and, when no option has it, none: its value is then
\* "".  The text input of the location takes the value as it is.
SetValue(f, v) ==
  IF f = "location" THEN v
  ELSE IF v \in options[f] THEN v ELSE ""

\* the entries with the possession sent under the name of its control
RedirectParamsWrongName(s) ==
  (IF Truthy(s.propertyType) THEN <<[name |-> "type", value |-> s.propertyType]>> ELSE <<>>)
  \o (IF Truthy(s.budget) THEN <<[name |-> "budget", value |-> s.budget]>> ELSE <<>>)
  \o (IF Truthy(s.bhk) THEN <<[name |-> "bhk", value |-> s.bhk]>> ELSE <<>>)
  \o (IF Truthy(s.location) THEN <<[name |-> "location", value |-> s.location]>> ELSE <<>>)
  \o (IF Truthy(s.possession) THEN <<[name |-> "possession", value |-> s.possession]>> ELSE <<>>)
  \o (IF Truthy(s.amenities) THEN <<[name |-> "amenities", value |-> s.amenities]>> ELSE <<>>)

\* the entries appended whether the control has a value or not
RedirectParamsNoGuard(s) ==
  <<[name |-> "type", value |-> s.propertyType],
    [name |-> "budget", value |-> s.budget],
    [name |-> "bhk", value |-> s.bhk],
    [name |-> "location", value |-> s.location],
    [name |-> "status", value |-> s.possession],
    [name |-> "amenities", value |-> s.amenities]>>

\* the entries redirectToFilteredProperties appends, in its order
RedirectParams(s) ==
  (IF Truthy(s.propertyType) THEN <<[name |-> "type", value |-> s.propertyType]>> ELSE <<>>)
  \o (IF Truthy(s.budget) THEN <<[name |-> "budget", value |-> s.budget]>> ELSE <<>>)
  \o (IF Truthy(s.bhk) THEN <<[name |-> "bhk", value |-> s.bhk]>> ELSE <<>>)
  \o (IF Truthy(s.location) THEN <<[name |-> "location", value |-> s.location]>> ELSE <<>>)
  \o (IF Truthy(s.possession) THEN <<[name |-> "status", value |-> s.possession]>> ELSE <<>>)
  \o (IF Truthy(s.amenities) THEN <<[name |-> "amenities", value |-> s.amenities]>> ELSE <<>>)

\* the query of the URL redirectToFilteredProperties navigates to
redirectToFilteredProperties(s) == Serialize(RedirectParams(s))

\* applyUrlFilters reading the possession under the name of its control
applyUrlFiltersWrongName(query, s) ==
  LET urlParams == ParseQuery(query)
      propertyType == UrlGet(urlParams, "type")
      budget == UrlGet(urlParams, "budget")
      bhk == UrlGet(urlParams, "bhk")
      location == UrlGet(urlParams, "location")
      possession == UrlGet(urlParams, "possession")
      amenities == UrlGet(urlParams, "amenities")
  IN [propertyType |-> IF Truthy(propertyType) THEN SetValue("propertyType", propertyType) ELSE s.propertyType,
      budget |-> IF Truthy(budget) THEN SetValue("budget", budget) ELSE s.budget,
      bhk |-> IF Truthy(bhk) THEN SetValue("bhk", bhk) ELSE s.bhk,
      location |-> IF Truthy(location) THEN SetValue("location", location) ELSE s.location,
      possession |-> IF Truthy(possession) THEN SetValue("possession", possession) ELSE s.possession,
      amenities |-> IF Truthy(amenities) THEN SetValue("amenities", amenities) ELSE s.amenities]

\* applyUrlFilters reading the possession under the name of its control when
\* the query has no status
applyUrlFiltersControlIds(query, s) ==
  LET urlParams == ParseQuery(query)
      propertyType == UrlGet(urlParams, "type")
      budget == UrlGet(urlParams, "budget")
      bhk == UrlGet(urlParams, "bhk")
      location == UrlGet(urlParams, "location")
      possession == IF UrlGet(urlParams, "status") # Null
                    THEN UrlGet(urlParams, "status")
                    ELSE UrlGet(urlParams, "possession")
      amenities == UrlGet(urlParams, "amenities")
  IN [propertyType |-> IF Truthy(propertyType) THEN SetValue("propertyType", propertyType) ELSE s.propertyType,
      budget |-> IF Truthy(budget) THEN SetValue("budget", budget) ELSE s.budget,
      bhk |-> IF Truthy(bhk) THEN SetValue("bhk", bhk) ELSE s.bhk,
      location |-> IF Truthy(location) THEN SetValue("location", location) ELSE s.location,
      possession |-> IF Truthy(possession) THEN SetValue("possession", possession) ELSE s.possession,
      amenities |-> IF Truthy(amenities) THEN SetValue("amenities", amenities) ELSE s.amenities]

\* applyUrlFilters reading the amenity under the singular name
applyUrlFiltersSingular(query, s) ==
  LET urlParams == ParseQuery(query)
      propertyType == UrlGet(urlParams, "type")
      budget == UrlGet(urlParams, "budget")
      bhk == UrlGet(urlParams, "bhk")
      location == UrlGet(urlParams, "location")
      possession == UrlGet(urlParams, "status")
      amenities == UrlGet(urlParams, "amenity")
  IN [propertyType |-> IF Truthy(propertyType) THEN SetValue("propertyType", propertyType) ELSE s.propertyType,
      budget |-> IF Truthy(budget) THEN SetValue("budget", budget) ELSE s.budget,
      bhk |-> IF Truthy(bhk) THEN SetValue("bhk", bhk) ELSE s.bhk,
      location |-> IF Truthy(location) THEN SetValue("location", location) ELSE s.location,
      possession |-> IF Truthy(possession) THEN SetValue("possession", possession) ELSE s.possession,
      amenities |-> IF Truthy(amenities) THEN SetValue("amenities", amenities) ELSE s.amenities]

\* the six facets in the order of the controls
FacetOrder == <<"propertyType", "budget", "bhk", "location", "possession", "amenities">>

\* the query parameter that carries the value of control f
ParamName(f) ==
  CASE f = "propertyType" -> "type"
    [] f = "budget"       -> "budget"
    [] f = "bhk"          -> "bhk"
    [] f = "location"     -> "location"
    [] f = "possession"   -> "status"
    [] f = "amenities"    -> "amenities"

\* applyUrlFilters emptying the controls the query has no value for
applyUrlFiltersResets(query, s) ==
  LET urlParams == ParseQuery(query)
      propertyType == UrlGet(urlParams, "type")
      budget == UrlGet(urlParams, "budget")
      bhk == UrlGet(urlParams, "bhk")
      location == UrlGet(urlParams, "location")
      possession == UrlGet(urlParams, "status")
      amenities == UrlGet(urlParams, "amenities")
  IN [propertyType |-> IF Truthy(propertyType) THEN SetValue("propertyType", propertyType) ELSE "",
      budget |-> IF Truthy(budget) THEN SetValue("budget", budget) ELSE "",
      bhk |-> IF Truthy(bhk) THEN SetValue("bhk", bhk) ELSE "",
      location |-> IF Truthy(location) THEN SetValue("location", location) ELSE "",
      possession |-> IF Truthy(possession) THEN SetValue("possession", possession) ELSE "",
      amenities |-> IF Truthy(amenities) THEN SetValue("amenities", amenities) ELSE ""]

\* the control values applyUrlFilters leaves, s the values before it, in a
\* document that has all six controls
applyUrlFilters(query, s) ==
  LET urlParams == ParseQuery(query)
      propertyType == UrlGet(urlParams, "type")
      budget == UrlGet(urlParams, "budget")
      bhk == UrlGet(urlParams, "bhk")
      location == UrlGet(urlParams, "location")
      possession == UrlGet(urlParams, "status")
      amenities == UrlGet(urlParams, "amenities")
  IN [propertyType |-> IF Truthy(propertyType) THEN SetValue("propertyType", propertyType) ELSE s.propertyType,
      budget |-> IF Truthy(budget) THEN SetValue("budget", budget) ELSE s.budget,
      bhk |-> IF Truthy(bhk) THEN SetValue("bhk", bhk) ELSE s.bhk,
      location |-> IF Truthy(location) THEN SetValue("location", location) ELSE s.location,
      possession |-> IF Truthy(possession) THEN SetValue("possession", possession) ELSE s.possession,
      amenities |-> IF Truthy(amenities) THEN SetValue("amenities", amenities) ELSE s.amenities]

\* applyUrlFilters looking its controls up under the names of the parameters:
\* the document has no element of id type or status
FirstMissingByParamName(query, present) ==
  LET urlParams == ParseQuery(query)
      fails == {k \in 1..Len(FacetOrder) :
                  /\ Truthy(UrlGet(urlParams, ParamName(FacetOrder[k])))
                  /\ ParamName(FacetOrder[k]) \notin present}
  IN IF fails = {} THEN 0 ELSE CHOOSE k \in fails : \A j \in fails : k <= j

\* The first of the six assignments of applyUrlFilters that is made on a
\* control the document does not have: document.getElementById returns null
\* and the assignment to its value ends the function in a TypeError.  0 when
\* there is none.
FirstMissing(query, present) ==
  LET urlParams == ParseQuery(query)
      fails == {k \in 1..Len(FacetOrder) :
                  /\ Truthy(UrlGet(urlParams, ParamName(FacetOrder[k])))
                  /\ FacetOrder[k] \notin present}
  IN IF fails = {} THEN 0 ELSE CHOOSE k \in fails : \A j \in fails : k <= j

\* applyUrlFilters in a document that has the controls present: the values of
\* the controls when it ends, whether it ended in a TypeError, and whether it
\* reached its setTimeout
applyUrlFiltersOutcome(query, s, present) ==
  LET k == FirstMissing(query, present)
      full == applyUrlFilters(query, s)
      At(n) == IF k = 0 \/ n < k THEN full[FacetOrder[n]] ELSE s[FacetOrder[n]]
  IN [sel |-> [propertyType |-> At(1), budget |-> At(2), bhk |-> At(3),
               location |-> At(4), possession |-> At(5), amenities |-> At(6)],
      threw |-> k # 0,
      timer |-> k = 0]

\* the selects without a selected option when applyUrlFilters ends, d those
\* before it: a select it assigns a value one of its options has gets that
\* option selected, a select it assigns any other value gets none
applyUrlFiltersDeselects(query, present, d) ==
  LET k == FirstMissing(query, present)
      urlParams == ParseQuery(query)
      assigned == {FacetOrder[n] : n \in {m \in 1..Len(FacetOrder) :
                     /\ k = 0 \/ m < k
                     /\ Truthy(UrlGet(urlParams, ParamName(FacetOrder[m])))}}
  IN (d \ assigned)
     \cup {f \in assigned \cap SelectFacets :
             UrlGet(urlParams, ParamName(f)) \notin options[f]}

----------------------------------------------------------------------------
(* Inputs: the cards a page carries, what a visitor can enter, the queries *)
(* a visitor can arrive with                                               *)

\* the cards of the properties page are MaxCards consecutive cards of this list
Catalogue ==
  <<Card("villa", "50l", "3,4", "South Beach, Miami", "ready", "pool,gym"),
    Card("apartment,villa", "1cr", "4", "Upper East Side, New York", "ready", ""),
    Card("villament", "2.5cr", "5,6", "Miami Gardens", "under-construction", "gym"),
    Card("plot", "5cr", "", "", "", "pool"),
    Card("", "10cr", "4,5", "Downtown", "ready", "poolside,club"),
    Card("penthouse", "on-request", "6", "MIAMI", "under-construction", "security,solar"),
    Card("apartment", "", "2", "Brooklyn, New York", "ready", "gym,pool"),
    Card("Luxury Residence", "10cr", "4", "Upper East Side, New York", "ready", "")>>

Datasets ==
  {SubSeq(Catalogue, i, i + MaxCards - 1) : i \in 1..(Len(Catalogue) - MaxCards + 1)}

\* the values a visitor can give each control, besides emptying it
UserValues(f) ==
  CASE f = "propertyType" -> {"villa", "apartment"}
    [] f = "budget"       -> {"50-100", "100-250", "250-500", "500-1000", "1000+"}
    [] f = "bhk"          -> {"4", "5+"}
    [] f = "location"     -> {"miami", "New York"}
    [] f = "possession"   -> {"ready", "under-construction"}
    [] f = "amenities"    -> {"pool", "gym"}

\* values an option of a <select> can carry that no table of the code names
ExtraValues(f) ==
  CASE f = "propertyType" -> {"castle"}
    [] f = "budget"       -> {"2000+"}
    [] f = "bhk"          -> {"7"}
    [] f = "location"     -> {}
    [] f = "possession"   -> {"sold"}
    [] f = "amenities"    -> {"spa"}

\* the options of the selects: the empty first option (l. 1500) and either
\* the values a visitor can pick above, or these and the extra ones
VocabularyOptions == [f \in SelectFacets |-> UserValues(f) \cup {""}]

WiderOptions ==
  [f \in SelectFacets |-> UserValues(f) \cup ExtraValues(f) \cup {""}]

OptionSets == {VocabularyOptions, WiderOptions}

\* the values control f can be given by hand
Offered(f) ==
  IF f = "location" THEN UserValues(f) \cup {""} ELSE options[f]

\* the ids of the properties whose card a visitor can click
PropertyIds == {1, 2}

\* the queries a visitor can open properties.html with
Queries ==
  {"", "type=villa&amenities=pool", "budget=1000%2B", "budget=2000%2B",
   "budget=abc&status=ready", "bhk=5%2B", "bhk=7", "type=castle",
   "location=Miami", "location=atlantis", "status=sold", "amenities=spa",
   "foo=bar&budget=50-100", "type=&budget=100-250&bhk=4", "type=vil",
   "possession=ready", "budget=constructor",
   "type=villa&budget=50-100&bhk=4&location=miami&status=ready&amenities=pool"}

----------------------------------------------------------------------------
(* The pages *)

\* #filter-results-info and #results-count are elements of properties.html
HasResultsInfo == page = "properties"

\* window.location.pathname.includes("properties.html")
OnPropertiesPage == page = "properties"

\* filterProperties adding its count to the count of the run before
FilterPropertiesAccumulates(s) ==
  LET out == ForEachCard(cards, ReadControls(s))
  IN /\ display' = out.display
     /\ lastRun' = [ran |-> TRUE, sel |-> s]
     /\ called' = TRUE
     /\ IF HasResultsInfo
        THEN /\ resultsCount' = (IF resultsCount < 0 THEN out.visibleCount
                                 ELSE resultsCount + out.visibleCount)
             /\ clearHidden' = ~hasFiltersApplied(s)
             /\ activeFilters' = ActiveFiltersText(s)
        ELSE UNCHANGED <<resultsCount, clearHidden, activeFilters>>

\* filterProperties, with updateFilterResultsInfo at its end, s the values of
\* the controls when it runs
FilterProperties(s) ==
  LET out == ForEachCard(cards, ReadControls(s))
  IN /\ display' = out.display
     /\ lastRun' = [ran |-> TRUE, sel |-> s]
     /\ called' = TRUE
     /\ IF HasResultsInfo
        THEN /\ resultsCount' = out.visibleCount
             /\ clearHidden' = ~hasFiltersApplied(s)
             /\ activeFilters' = ActiveFiltersText(s)
        ELSE UNCHANGED <<resultsCount, clearHidden, activeFilters>>

\* a freshly parsed document: empty controls, no inline style on any card
FreshDocument(p, q, cs, present) ==
  /\ page' = p
  /\ search' = q
  /\ loaded' = FALSE
  /\ cards' = cs
  /\ sel' = EmptySelection
  /\ display' = [i \in 1..Len(cs) |-> ""]
  /\ resultsCount' = -1
  /\ clearHidden' = TRUE
  /\ activeFilters' = ""
  /\ timers' = 0
  /\ lastRun' = [ran |-> FALSE, sel |-> EmptySelection]
  /\ controls' = present
  /\ raised' = FALSE
  /\ lastEvent' = "none"
  /\ href' = ""
  /\ deselected' = {}
  /\ called' = FALSE

Init ==
  /\ page \in {"index", "properties"}
  /\ search \in (IF page = "properties" THEN Queries ELSE {""})
  /\ loaded = FALSE
  /\ cards \in (IF page = "properties" THEN Datasets ELSE {<<>>})
  /\ sel = EmptySelection
  /\ display = [i \in 1..Len(cards) |-> ""]
  /\ resultsCount = -1
  /\ clearHidden = TRUE
  /\ activeFilters = ""
  /\ timers = 0
  /\ lastRun = [ran |-> FALSE, sel |-> EmptySelection]
  /\ events = 0
  /\ sent = [made |-> FALSE, sel |-> EmptySelection]
  /\ controls = Facets
  /\ raised = FALSE
  /\ lastEvent = "none"
  /\ href = ""
  /\ deselected = {}
  /\ called = FALSE
  /\ options \in OptionSets

\* the handlers running filterProperties at once and applyUrlFilters after it
DOMContentLoadedRunsFirst ==
  /\ ~loaded
  /\ loaded' = TRUE
  /\ IF OnPropertiesPage
     THEN /\ sel' = applyUrlFilters(search, sel)
          /\ FilterProperties(sel)
          /\ deselected' = applyUrlFiltersDeselects(search, controls, deselected)
          /\ UNCHANGED timers
     ELSE /\ called' = FALSE
          /\ UNCHANGED <<sel, timers, display, resultsCount, clearHidden,
                         activeFilters, lastRun, deselected>>
  /\ UNCHANGED <<page, search, cards, events, sent, controls, raised, lastEvent, href, options>>

\* the handlers with applyUrlFilters calling filterProperties itself, no timer
DOMContentLoadedRunsAtOnce ==
  /\ ~loaded
  /\ loaded' = TRUE
  /\ IF OnPropertiesPage
     THEN /\ sel' = applyUrlFilters(search, sel)
          /\ FilterProperties(sel')
          /\ lastEvent' = "timer"
          /\ deselected' = applyUrlFiltersDeselects(search, controls, deselected)
          /\ UNCHANGED timers
     ELSE /\ called' = FALSE
          /\ UNCHANGED <<sel, timers, display, resultsCount, clearHidden,
                         activeFilters, lastRun, lastEvent, deselected>>
  /\ UNCHANGED <<page, search, cards, events, sent, controls, raised, href, options>>

\* The DOMContentLoaded handlers: setupPropertyFiltering, called by two of
\* them, registers a submit listener at each call and the change listener
\* filterProperties, which a control keeps once however often it is added;
\* the click listener of #clear-filters is registered, and on properties.html
\* applyUrlFilters fills the controls from the query and starts its timer.
DOMContentLoaded ==
  /\ ~loaded
  /\ loaded' = TRUE
  /\ IF OnPropertiesPage
     THEN LET out == applyUrlFiltersOutcome(search, sel, controls)
          IN /\ sel' = out.sel
             /\ timers' = IF out.timer THEN timers + 1 ELSE timers
             /\ raised' = (raised \/ out.threw)
             /\ deselected' =
                  applyUrlFiltersDeselects(search, controls, deselected)
     ELSE UNCHANGED <<sel, timers, raised, deselected>>
  /\ called' = FALSE
  /\ UNCHANGED <<page, search, cards, display, resultsCount, clearHidden,
                 activeFilters, lastRun, events, sent, controls, lastEvent,
                 href, options>>

\* the timer's run moving the cards it shows behind the cards it hides
TimerFiresReorders ==
  /\ timers > 0
  /\ lastEvent' = "timer"
  /\ timers' = timers - 1
  /\ LET out == ForEachCard(cards, ReadControls(sel))
         n == Len(cards)
     IN /\ cards' = [i \in 1..n |-> cards[n + 1 - i]]
        /\ display' = [i \in 1..n |-> out.display[n + 1 - i]]
        /\ lastRun' = [ran |-> TRUE, sel |-> sel]
        /\ called' = TRUE
        /\ resultsCount' = out.visibleCount
        /\ clearHidden' = ~hasFiltersApplied(sel)
        /\ activeFilters' = ActiveFiltersText(sel)
  /\ UNCHANGED <<page, search, loaded, sel, events, sent, controls, raised, href, options, deselected>>

\* the timer's run writing the values it read back into the controls
TimerFiresWritesBack ==
  /\ timers > 0
  /\ lastEvent' = "timer"
  /\ timers' = timers - 1
  /\ FilterProperties(sel)
  /\ sel' = ReadControls(sel)
  /\ UNCHANGED <<page, search, loaded, cards, events, sent, controls, raised, href, options, deselected>>

\* the timer applyUrlFilters started fires
TimerFires ==
  /\ timers > 0
  /\ lastEvent' = "timer"
  /\ timers' = timers - 1
  /\ FilterProperties(sel)
  /\ UNCHANGED <<page, search, loaded, cards, sel, events, sent, controls, raised, href, options, deselected>>

\* a change of a control that no listener answers
ChangeWithoutRun(f, v) ==
  /\ loaded
  /\ f \in controls
  /\ v \in Offered(f)
  /\ events < MaxEvents
  /\ sel[f] # v \/ f \in deselected
  /\ lastEvent' = "change"
  /\ sel' = [sel EXCEPT ![f] = v]
  /\ deselected' = deselected \ {f}
  /\ called' = FALSE
  /\ events' = events + 1
  /\ UNCHANGED <<page, search, loaded, cards, timers, sent, controls, raised,
                 display, resultsCount, clearHidden, activeFilters, lastRun, href, options>>

\* A visitor gives control f the value v, another than it has, or picks an
\* option of a select that has none selected (the select read "" and the
\* empty option can be the one picked): the browser fires change, and the
\* change listener of the control, filterProperties itself, runs.
Change(f, v) ==
  /\ loaded
  /\ f \in controls
  /\ v \in Offered(f)
  /\ events < MaxEvents
  /\ sel[f] # v \/ f \in deselected
  /\ lastEvent' = "change"
  /\ sel' = [sel EXCEPT ![f] = v]
  /\ deselected' = deselected \ {f}
  /\ FilterProperties(sel')
  /\ events' = events + 1
  /\ UNCHANGED <<page, search, loaded, cards, timers, sent, controls, raised, href, options>>

\* submit on properties.html: the submit listeners call filterProperties
SubmitOnProperties ==
  /\ loaded
  /\ lastEvent' = "submit"
  /\ page = "properties"
  /\ events < MaxEvents
  /\ FilterProperties(sel)
  /\ events' = events + 1
  /\ UNCHANGED <<page, search, loaded, cards, sel, timers, sent, controls, raised, href, options, deselected>>

\* submit on the index page: the listeners call filterProperties and
\* redirectToFilteredProperties, which assigns window.location.href.  The
\* handlers then return: the index document stays the active one, and takes
\* further events, until the navigation commits.
SubmitOnIndex ==
  /\ loaded
  /\ lastEvent' = "submit"
  /\ page = "index"
  /\ events < MaxEvents
  /\ FilterProperties(sel)
  /\ href' = "properties.html?" \o redirectToFilteredProperties(sel)
  /\ sent' = [made |-> TRUE, sel |-> sel]
  /\ events' = events + 1
  /\ UNCHANGED <<page, search, loaded, cards, sel, timers, controls, raised,
                 options, deselected>>

\* viewProperty, the click on the button of a property card: for the property
\* of id 1 it assigns window.location.href and returns; for any other id it
\* shows a notification and changes nothing of the form or the cards.
viewProperty(propertyId) ==
  /\ loaded
  /\ page \in {"index", "properties"}
  /\ events < MaxEvents
  /\ href' = (IF propertyId = 1 THEN "dasnac.html" ELSE href)
  /\ called' = FALSE
  /\ events' = events + 1
  /\ UNCHANGED <<page, search, loaded, cards, sel, display, resultsCount,
                 clearHidden, activeFilters, timers, lastRun, sent, controls,
                 raised, lastEvent, options, deselected>>

\* the part of a URL before its query
PathOf(url) ==
  LET i == IndexOf(url, "?")
  IN IF i = 0 THEN url ELSE SubSeq(url, 1, i - 1)

\* the query of a URL, without its question mark
SearchOf(url) ==
  LET i == IndexOf(url, "?")
  IN IF i = 0 THEN "" ELSE SubSeq(url, i + 1, Len(url))

\* The navigation to the URL assigned last commits: the document is replaced
\* by a fresh one, its pending timers are gone with it.  dasnac.html has no
\* filter form and no filtered cards.
Navigate ==
  /\ href # ""
  /\ IF PathOf(href) = "properties.html"
     THEN /\ \E cs \in Datasets :
               FreshDocument("properties", SearchOf(href), cs, Facets)
          /\ UNCHANGED sent
     ELSE /\ FreshDocument("dasnac", "", <<>>, {})
          /\ sent' = [made |-> FALSE, sel |-> EmptySelection]
  /\ UNCHANGED <<events, options>>

\* the click resetting the selects of the form and not its text input
clearAllFiltersSelectsOnly ==
  /\ loaded
  /\ lastEvent' = "clear"
  /\ page = "properties"
  /\ events < MaxEvents
  /\ sel' = [EmptySelection EXCEPT !.location = sel.location]
  /\ deselected' = {}
  /\ FilterProperties(sel')
  /\ events' = events + 1
  /\ UNCHANGED <<page, search, loaded, cards, timers, sent, controls, raised, href, options>>

\* click on #clear-filters: every input and select of the form is reset
\* (a select to its first option, the empty one), then filterProperties runs
clearAllFilters ==
  /\ loaded
  /\ lastEvent' = "clear"
  /\ page = "properties"
  /\ events < MaxEvents
  /\ sel' = EmptySelection
  /\ deselected' = {}
  /\ FilterProperties(sel')
  /\ events' = events + 1
  /\ UNCHANGED <<page, search, loaded, cards, timers, sent, controls, raised, href, options>>

Next ==
  \/ DOMContentLoaded
  \/ TimerFires
  \/ \E f \in Facets :
       \E v \in UserValues(f) \cup ExtraValues(f) \cup {""} : Change(f, v)
  \/ SubmitOnProperties
  \/ SubmitOnIndex
  \/ clearAllFilters
  \/ \E propertyId \in PropertyIds : viewProperty(propertyId)
  \/ Navigate

Spec == Init /\ [][Next]_vars

\* the steps that lower the count of pending timers: TimerFires, which has no
\* guard but timers > 0, and Navigate discarding the document with its timers
TimerStep == timers > 0 /\ timers' = timers - 1

\* The event loop of the browser runs the callback of a timer that was
\* started: a pending setTimeout(filterProperties, 100) does fire.
SpecLive == Init /\ [][Next]_vars /\ WF_timers(TimerStep)

\* The hand-over on its own: the form of the index page holds any values its
\* controls offer, either put there by the visitor, whose last change ran
\* filterProperties on them (l. 1289), or put back by the browser with no
\* run yet; the visitor submits, the navigation commits, and properties.html
\* loads and runs its deferred filterProperties.
VocabularySelections ==
  [propertyType : UserValues("propertyType") \cup {""},
   budget : UserValues("budget") \cup {""},
   bhk : UserValues("bhk") \cup {""},
   location : UserValues("location") \cup {""},
   possession : UserValues("possession") \cup {""},
   amenities : UserValues("amenities") \cup {""}]

InitHandover ==
  /\ page = "index"
  /\ search = ""
  /\ loaded = TRUE
  /\ cards = <<>>
  /\ sel \in VocabularySelections
  /\ display = <<>>
  /\ resultsCount = -1
  /\ clearHidden = TRUE
  /\ activeFilters = ""
  /\ timers = 0
  /\ \/ /\ lastRun = [ran |-> FALSE, sel |-> EmptySelection]
        /\ lastEvent = "none"
     \/ /\ lastRun = [ran |-> TRUE, sel |-> sel]
        /\ lastEvent = "change"
  /\ events = 0
  /\ sent = [made |-> FALSE, sel |-> EmptySelection]
  /\ controls = Facets
  /\ raised = FALSE
  /\ href = ""
  /\ deselected = {}
  /\ called = FALSE
  /\ options = VocabularyOptions

NextHandover ==
  \/ SubmitOnIndex
  \/ Navigate
  \/ DOMContentLoaded
  \/ TimerFires

SpecHandover == InitHandover /\ [][NextHandover]_vars

\* properties.html reloaded or reached again through the history: the browser
\* has put back the values the controls had before the handlers run, so
\* applyUrlFilters (l. 1638-1644) finds controls that are not empty.
RestoredSelections ==
  {EmptySelection,
   [EmptySelection EXCEPT !.propertyType = "apartment", !.bhk = "4"],
   [EmptySelection EXCEPT !.budget = "250-500", !.location = "New York",
                          !.possession = "under-construction", !.amenities = "gym"]}

InitRestored ==
  /\ page = "properties"
  /\ search \in Queries
  /\ loaded = FALSE
  /\ cards \in Datasets
  /\ sel \in RestoredSelections
  /\ display = [i \in 1..Len(cards) |-> ""]
  /\ resultsCount = -1
  /\ clearHidden = TRUE
  /\ activeFilters = ""
  /\ timers = 0
  /\ lastRun = [ran |-> FALSE, sel |-> EmptySelection]
  /\ events = 0
  /\ sent = [made |-> FALSE, sel |-> EmptySelection]
  /\ controls = Facets
  /\ raised = FALSE
  /\ lastEvent = "none"
  /\ href = ""
  /\ deselected = {}
  /\ called = FALSE
  /\ options \in OptionSets

NextRestored ==
  \/ DOMContentLoaded
  \/ TimerFires
  \/ SubmitOnProperties
  \/ clearAllFilters

SpecRestored == InitRestored /\ [][NextRestored]_vars

----------------------------------------------------------------------------
(* What the claims speak of *)

\* card i is shown by the latest filterProperties run
Shown(i) == display[i] = "block"

\* the values the latest filterProperties run read
Read == ReadControls(lastRun.sel)

\* card i passes every block but that of facet f: what the run decides for it
\* with the control f emptied
OthersPass(i, f) ==
  ShowProperty(cards[i], ReadControls([lastRun.sel EXCEPT ![f] = ""]))

\* each facet on its own: the block of the facet entered with showProperty true
matchesPropertyType(r, card) == TypeBlock(TRUE, r.propertyType, card)
matchesBudget(r, card) == BudgetBlock(TRUE, r.budget, card)
matchesBedrooms(r, card) == BhkBlock(TRUE, r.bhk, card)
matchesLocation(r, card) == LocationBlock(TRUE, r.location, card)
matchesPossession(r, card) == PossessionBlock(TRUE, r.possession, card)
matchesAmenity(r, card) == AmenitiesBlock(TRUE, r.amenities, card)

\* the six blocks taken in the opposite order
ShowPropertyReversed(card, r) ==
  LET s1 == AmenitiesBlock(TRUE, r.amenities, card)
      s2 == PossessionBlock(s1, r.possession, card)
      s3 == LocationBlock(s2, r.location, card)
      s4 == BhkBlock(s3, r.bhk, card)
      s5 == BudgetBlock(s4, r.budget, card)
      s6 == TypeBlock(s5, r.propertyType, card)
  IN s6

\* the buckets the budget control offers
RecognizedBudgets == {"50-100", "100-250", "250-500", "500-1000", "1000+"}

\* the bucket-adjacency table as the specification states it
BudgetAdjacency ==
  [b \in RecognizedBudgets |->
     CASE b = "50-100"   -> {"50l", "1cr"}
       [] b = "100-250"  -> {"1cr", "2.5cr"}
       [] b = "250-500"  -> {"2.5cr", "5cr"}
       [] b = "500-1000" -> {"5cr", "10cr"}
       [] b = "1000+"    -> {"10cr", "on-request"}]

\* the attribute of a card that the facet of control f is compared with
CardField(card, f) ==
  CASE f = "propertyType" -> card.propertyType
    [] f = "budget"       -> card.priceRange
    [] f = "bhk"          -> card.bhk
    [] f = "location"     -> card.location
    [] f = "possession"   -> card.status
    [] f = "amenities"    -> card.amenities

\* the comma-separated options of an attribute, as a set; none when it is missing
Options(attr) ==
  IF attr = "" THEN {} ELSE {Split(attr, ",")[k] : k \in 1..Len(Split(attr, ","))}

----------------------------------------------------------------------------
(* C1 *)

\* C1: after every filterProperties run a card is shown if and only if all six
\* facet predicates hold for it, each taken on its own, and taking the six
\* facets in the opposite order decides the same.
C1_AndComposition ==
  lastRun.ran =>
    \A i \in 1..Len(cards) :
      /\ Shown(i) <=>
           /\ matchesPropertyType(Read, cards[i])
           /\ matchesBudget(Read, cards[i])
           /\ matchesBedrooms(Read, cards[i])
           /\ matchesLocation(Read, cards[i])
           /\ matchesPossession(Read, cards[i])
           /\ matchesAmenity(Read, cards[i])
      /\ Shown(i) <=> ShowPropertyReversed(cards[i], Read)

\* a run with two facets set where a card fails the first and passes the second
C1_Witness ==
  /\ lastRun.ran
  /\ \E i \in 1..Len(cards) :
       /\ Truthy(Read.propertyType) /\ Truthy(Read.amenities)
       /\ ~matchesPropertyType(Read, cards[i])
       /\ Truthy(cards[i].amenities) /\ matchesAmenity(Read, cards[i])
       /\ ~Shown(i)
  /\ \E j \in 1..Len(cards) : Shown(j)

----------------------------------------------------------------------------
(* C2 *)

\* the budget read by the latest run is non-empty and no recognized bucket
UnrecognizedBudget == Truthy(Read.budget) /\ Read.budget \notin RecognizedBudgets

\* C2 as stated: with an unrecognized non-empty budget no card is shown
C2_FailClosed ==
  (lastRun.ran /\ UnrecognizedBudget) => \A i \in 1..Len(cards) : ~Shown(i)

\* C2 amended: an unrecognized non-empty budget filters nothing; a card is
\* shown exactly when it would be shown with the budget control empty.
C2_UnrecognizedBudgetPasses ==
  (lastRun.ran /\ UnrecognizedBudget) =>
    \A i \in 1..Len(cards) : Shown(i) <=> OthersPass(i, "budget")

\* a run with an unrecognized budget that shows a card carrying a price range
\* and hides another on the possession facet
C2_Witness ==
  /\ lastRun.ran /\ UnrecognizedBudget
  /\ \E i \in 1..Len(cards) : Shown(i) /\ Truthy(cards[i].priceRange)
  /\ \E j \in 1..Len(cards) : ~Shown(j)

----------------------------------------------------------------------------
(* C3 *)

\* C3: with a recognized budget, a card that carries a price range passes the
\* budget facet exactly when its price range is in the set the adjacency table
\* gives for the budget.
C3_BudgetAdjacency ==
  (lastRun.ran /\ Read.budget \in RecognizedBudgets) =>
    \A i \in 1..Len(cards) :
      Truthy(cards[i].priceRange) =>
        (Shown(i) <=>
           /\ cards[i].priceRange \in BudgetAdjacency[Read.budget]
           /\ OthersPass(i, "budget"))

\* a card priced 10cr is shown under the budget 1000+
C3_Witness ==
  /\ lastRun.ran
  /\ Read.budget = "1000+"
  /\ \E i \in 1..Len(cards) : cards[i].priceRange = "10cr" /\ Shown(i)
  /\ \E j \in 1..Len(cards) : Truthy(cards[j].priceRange) /\ ~Shown(j)

----------------------------------------------------------------------------
(* C4 *)

\* the option is a number of at least five
AtLeastFive(option) == ~ParseInt(option).nan /\ ParseInt(option).num >= 5

\* the bedrooms facet as the specification states it
BedroomsAsStated(selected, card) ==
  \/ selected = ""
  \/ IF selected = "5+"
     THEN \E o \in Options(card.bhk) : AtLeastFive(o)
     ELSE selected \in Options(card.bhk)

\* C4 as stated: a card passes the bedrooms facet exactly when the selected
\* value is empty or one of its options, "5+" standing for an option >= 5
C4_BedroomsAsStated ==
  lastRun.ran =>
    \A i \in 1..Len(cards) :
      Shown(i) <=> (BedroomsAsStated(Read.bhk, cards[i]) /\ OthersPass(i, "bhk"))

\* C4 amended: a card passes the bedrooms facet exactly when the selected value
\* is empty, or the card has no bedroom options at all, or the selected value
\* is literally one of its options, "5+" matching instead exactly when one of
\* the options is a number >= 5.
C4_Bedrooms ==
  lastRun.ran =>
    \A i \in 1..Len(cards) :
      Shown(i) <=>
        /\ \/ cards[i].bhk = ""
           \/ BedroomsAsStated(Read.bhk, cards[i])
        /\ OthersPass(i, "bhk")

\* under "5+" a card offering 5 and 6 is shown and a card offering only 4 is not
C4_Witness ==
  /\ lastRun.ran
  /\ Read.bhk = "5+"
  /\ \E i \in 1..Len(cards) : Options(cards[i].bhk) = {"5", "6"} /\ Shown(i)
  /\ \E j \in 1..Len(cards) : Options(cards[j].bhk) = {"4"} /\ ~Shown(j)

----------------------------------------------------------------------------
(* C5 *)

\* C5: a card that carries property-type tags passes the property-type facet
\* exactly when the selected type is empty or is one of its tags as a whole.
C5_TypeMembership ==
  lastRun.ran =>
    \A i \in 1..Len(cards) :
      Truthy(cards[i].propertyType) =>
        (Shown(i) <=>
           /\ \/ Read.propertyType = ""
              \/ Read.propertyType \in Options(cards[i].propertyType)
           /\ OthersPass(i, "propertyType"))

----------------------------------------------------------------------------
(* C6 *)

\* the location facet as the specification states it
LocationAsStated(selected, card) ==
  \/ selected = ""
  \/ Includes(ToLowerCase(card.location), ToLowerCase(selected))

\* C6 as stated: a card passes the location facet exactly when the selected
\* text is empty or its lower-cased location contains the lower-cased text
C6_LocationAsStated ==
  lastRun.ran =>
    \A i \in 1..Len(cards) :
      Shown(i) <=>
        (LocationAsStated(lastRun.sel.location, cards[i]) /\ OthersPass(i, "location"))

\* C6 amended: a card passes the location facet exactly when the selected text
\* is empty, or the card has no location text, or its lower-cased location
\* contains the lower-cased selected text.
C6_Location ==
  lastRun.ran =>
    \A i \in 1..Len(cards) :
      Shown(i) <=>
        /\ \/ cards[i].location = ""
           \/ LocationAsStated(lastRun.sel.location, cards[i])
        /\ OthersPass(i, "location")

\* a selected text that differs from the card's location in case only is found
C6_Witness ==
  /\ lastRun.ran
  /\ Truthy(lastRun.sel.location)
  /\ \E i \in 1..Len(cards) :
       /\ Shown(i)
       /\ Includes(ToLowerCase(cards[i].location), ToLowerCase(lastRun.sel.location))
       /\ ~Includes(cards[i].location, lastRun.sel.location)
  /\ \E j \in 1..Len(cards) : Truthy(cards[j].location) /\ ~Shown(j)

----------------------------------------------------------------------------
(* C7 *)

\* the selected amenity passed through the alias map
Alias(selected) ==
  IF selected \in {"pool", "gym", "club", "security", "solar"}
  THEN amenityMap[selected] ELSE selected

\* the amenity facet as the specification states it
AmenityAsStated(selected, card) ==
  \/ selected = ""
  \/ Alias(selected) \in Options(card.amenities)

\* C7 as stated: a card passes the amenity facet exactly when the selected
\* amenity is empty or, mapped through the alias map, is one of its tags
C7_AmenityAsStated ==
  lastRun.ran =>
    \A i \in 1..Len(cards) :
      Shown(i) <=>
        (AmenityAsStated(Read.amenities, cards[i]) /\ OthersPass(i, "amenities"))

\* C7 amended: a card passes the amenity facet exactly when the selected
\* amenity is empty, or the card has no amenity tags at all, or the selected
\* amenity, mapped through the alias map, is one of its tags; a selected
\* amenity that is a name the alias map inherits (constructor, toString, ...)
\* is no tag of any card.
C7_Amenity ==
  lastRun.ran =>
    \A i \in 1..Len(cards) :
      Shown(i) <=>
        /\ \/ cards[i].amenities = ""
           \/ Read.amenities = ""
           \/ /\ Read.amenities \notin ObjectPrototypeKeys
              /\ Alias(Read.amenities) \in Options(cards[i].amenities)
        /\ OthersPass(i, "amenities")

\* under "pool" a card tagged pool is shown and a card tagged poolside is not
C7_Witness ==
  /\ lastRun.ran
  /\ Read.amenities = "pool"
  /\ \E i \in 1..Len(cards) : "pool" \in Options(cards[i].amenities) /\ Shown(i)
  /\ \E j \in 1..Len(cards) :
       /\ Includes(cards[j].amenities, "pool")
       /\ "pool" \notin Options(cards[j].amenities)
       /\ ~Shown(j)

----------------------------------------------------------------------------
(* C8 *)

\* C8 as stated: a card passes the possession facet exactly when the selected
\* status is empty or equal to its status
C8_PossessionAsStated ==
  lastRun.ran =>
    \A i \in 1..Len(cards) :
      Shown(i) <=>
        /\ \/ Read.possession = ""
           \/ Read.possession = cards[i].status
        /\ OthersPass(i, "possession")

\* C8 amended: a card passes the possession facet exactly when the selected
\* status is empty, or the card has no status, or the two are equal.
C8_Possession ==
  lastRun.ran =>
    \A i \in 1..Len(cards) :
      Shown(i) <=>
        /\ \/ cards[i].status = ""
           \/ Read.possession = ""
           \/ Read.possession = cards[i].status
        /\ OthersPass(i, "possession")

\* under a selected status a card of that status is shown and one of another
\* status is not
C8_Witness ==
  /\ lastRun.ran
  /\ Truthy(Read.possession)
  /\ \E i \in 1..Len(cards) : cards[i].status = Read.possession /\ Shown(i)
  /\ \E j \in 1..Len(cards) :
       Truthy(cards[j].status) /\ cards[j].status # Read.possession /\ ~Shown(j)

----------------------------------------------------------------------------
(* C9 *)

\* C9 as stated: a card that lacks the attribute of a facet is not shown when
\* the control of that facet has a value
C9_MissingFieldHides ==
  lastRun.ran =>
    \A i \in 1..Len(cards) : \A f \in Facets :
      (Truthy(Read[f]) /\ ~Truthy(CardField(cards[i], f))) => ~Shown(i)

\* C9 amended: a card that lacks the attribute of a facet passes that facet
\* whatever the selected value; it is shown exactly when it passes the other
\* five facets.
C9_MissingFieldPasses ==
  lastRun.ran =>
    \A i \in 1..Len(cards) : \A f \in Facets :
      ~Truthy(CardField(cards[i], f)) => (Shown(i) <=> OthersPass(i, f))

\* a card without bedroom options is shown although a bedroom value is selected
C9_Witness ==
  /\ lastRun.ran
  /\ Truthy(Read.bhk)
  /\ \E i \in 1..Len(cards) : ~Truthy(cards[i].bhk) /\ Shown(i)

----------------------------------------------------------------------------
(* C10 *)

\* the facets with a vocabulary: the values their control offers (the location
\* is free text)
VocabularyFacets == Facets \ {"location"}

\* the value the query of the page carries for control f, Null when it has none
QueryValue(f) == UrlGet(ParseQuery(search), ParamName(f))

\* the query carries a value for f that is none of the values the code's
\* tables name for f
OutsideVocabulary(f) ==
  Truthy(QueryValue(f)) /\ QueryValue(f) \notin UserValues(f)

\* the latest run evaluated the selection decoded from the query of the page
EvaluatedQuery ==
  /\ page = "properties"
  /\ lastRun.ran
  /\ lastRun.sel = applyUrlFilters(search, EmptySelection)

\* C10 as stated: a query value outside its facet's vocabulary leaves no card shown
C10_FailClosed ==
  EvaluatedQuery =>
    \A f \in VocabularyFacets :
      OutsideVocabulary(f) => \A i \in 1..Len(cards) : ~Shown(i)

\* C10 amended: a query value outside its facet's vocabulary that the select
\* of the facet has no option for leaves the select empty, and the facet then
\* passes every card.  Where the select has an option for it, it is evaluated
\* like any selected value: an unrecognized budget filters nothing; for type,
\* bedrooms, possession and amenities a card that lacks the attribute passes
\* the facet, a card that carries it and does not hold the value is hidden,
\* and the type facet also passes a card whose attribute contains the value
\* inside a tag.
C10_OutsideVocabulary ==
  EvaluatedQuery =>
    \A f \in VocabularyFacets :
      OutsideVocabulary(f) =>
        /\ lastRun.sel[f] =
             (IF QueryValue(f) \in options[f] THEN QueryValue(f) ELSE "")
        /\ \A i \in 1..Len(cards) :
             LET field == CardField(cards[i], f)
                 passes ==
                   CASE QueryValue(f) \notin options[f] -> TRUE
                     [] f = "budget" -> TRUE
                     [] f = "propertyType" ->
                          field = "" \/ Includes(field, QueryValue(f))
                     [] OTHER ->
                          field = "" \/ QueryValue(f) \in Options(field)
             IN Shown(i) <=> (passes /\ OthersPass(i, f))

\* a query with a possession status the select has no option for leaves the
\* select empty and a card that has a status shown
C10_Witness ==
  /\ EvaluatedQuery
  /\ OutsideVocabulary("possession")
  /\ QueryValue("possession") \notin options.possession
  /\ lastRun.sel.possession = ""
  /\ \E i \in 1..Len(cards) : Truthy(cards[i].status) /\ Shown(i)

----------------------------------------------------------------------------
(* C11 *)

\* C11: a selection of values the controls offer, encoded by
\* redirectToFilteredProperties and decoded by applyUrlFilters into the empty
\* controls of properties.html, is the same selection in all six facets.
C11_RoundTrip ==
  (sent.made /\ page = "properties" /\ loaded) => sel = sent.sel

\* a selection with all six facets set, a "+" and a space among its values,
\* has made the round trip
C11_Witness ==
  /\ sent.made /\ page = "properties" /\ loaded
  /\ \A f \in Facets : Truthy(sent.sel[f])
  /\ sent.sel.bhk = "5+" /\ sent.sel.budget = "1000+"
  /\ sent.sel.location = "New York"
  /\ sel = sent.sel

----------------------------------------------------------------------------
(* C12 *)

\* C12: once properties.html has evaluated the selection handed over in the
\* query string, every card has the display, and the count the value, that
\* filterProperties gives them for that selection taken from the controls.
C12_SamePaths ==
  (sent.made /\ page = "properties" /\ lastRun.ran) =>
    /\ display = ForEachCard(cards, ReadControls(sent.sel)).display
    /\ resultsCount = ForEachCard(cards, ReadControls(sent.sel)).visibleCount

\* the selection "5+" handed over shows one card and hides another
C12_Witness ==
  /\ sent.made /\ page = "properties" /\ lastRun.ran
  /\ sent.sel.bhk = "5+"
  /\ \E i \in 1..Len(cards) : Shown(i) /\ Truthy(cards[i].bhk)
  /\ \E j \in 1..Len(cards) : ~Shown(j)

----------------------------------------------------------------------------
(* C13 *)

\* the positions of the cards shown, in document order
RECURSIVE VisiblePositions(_)
VisiblePositions(d) ==
  IF d = <<>> THEN <<>>
  ELSE VisiblePositions(SubSeq(d, 1, Len(d) - 1))
       \o (IF d[Len(d)] = "block" THEN <<Len(d)>> ELSE <<>>)

\* C13: after a filterProperties run that read six empty controls, the cards
\* shown are all the cards of the page, in document order.
C13_EmptySelectionShowsAll ==
  (lastRun.ran /\ lastRun.sel = EmptySelection /\ cards # <<>>) =>
    /\ VisiblePositions(display) = [i \in 1..Len(cards) |-> i]
    /\ resultsCount = Len(cards)

\* the controls were given a value and emptied again, and all cards are shown
C13_Witness ==
  /\ lastRun.ran /\ lastRun.sel = EmptySelection
  /\ Len(cards) >= 2
  /\ events = 2
  /\ \A i \in 1..Len(cards) : Shown(i)

----------------------------------------------------------------------------
(* C14 *)

\* one entry for each of the first k facets that has a value, under the fixed
\* name of the facet
RECURSIVE EntriesOf(_, _)
EntriesOf(s, k) ==
  IF k = 0 THEN <<>>
  ELSE EntriesOf(s, k - 1)
       \o (IF s[FacetOrder[k]] # ""
           THEN <<[name |-> ParamName(FacetOrder[k]), value |-> s[FacetOrder[k]]]>>
           ELSE <<>>)

\* C14: the query redirectToFilteredProperties navigates to holds exactly one
\* parameter for each facet that has a value, under the names type, budget,
\* bhk, location, status, amenities and with the facet's value, and no
\* parameter, not even an empty one, for a facet without a value.
C14_EncodeToQuery ==
  (sent.made /\ page = "index") =>
    /\ PathOf(href) = "properties.html"
    /\ ParseQuery(SearchOf(href)) = EntriesOf(sent.sel, Len(FacetOrder))
    /\ \A k \in 1..Len(ParseQuery(SearchOf(href))) :
         ParseQuery(SearchOf(href))[k].value # ""

\* the selection villa / pool is sent as type=villa&amenities=pool
C14_Witness ==
  /\ sent.made /\ page = "index"
  /\ sent.sel = [EmptySelection EXCEPT !.propertyType = "villa", !.amenities = "pool"]
  /\ href = "properties.html?type=villa&amenities=pool"

----------------------------------------------------------------------------
(* C15 *)

\* properties.html has loaded and applyUrlFilters has filled the controls;
\* nothing has touched them since
JustDecoded == page = "properties" /\ loaded /\ ~lastRun.ran

\* the six names applyUrlFilters asks the query for
KnownNames == {ParamName(f) : f \in Facets}

\* the entries of a query that carry one of the six names
RECURSIVE StripUnknown(_)
StripUnknown(params) ==
  IF params = <<>> THEN <<>>
  ELSE (IF params[1].name \in KnownNames THEN <<params[1]>> ELSE <<>>)
       \o StripUnknown(Tail(params))

\* C15 as stated: after applyUrlFilters every control whose parameter the
\* query does not hold is empty
C15_MissingIsEmpty ==
  JustDecoded => \A f \in Facets : QueryValue(f) = Null => sel[f] = ""

\* C15 amended: applyUrlFilters leaves every control whose parameter the query
\* does not hold with the value it had before, which is the empty one when
\* the controls were empty, and leaves the controls as the same query without
\* its entries of other names leaves them.
C15_MissingAndUnknown ==
  [][(~loaded /\ loaded' /\ page = "properties") =>
       /\ \A f \in Facets :
            QueryValue(f) = Null =>
              /\ sel'[f] = sel[f]
              /\ sel = EmptySelection => sel'[f] = ""
       /\ sel' = applyUrlFilters(Serialize(StripUnknown(ParseQuery(search))),
                                 sel)]_vars

\* a query with an entry of an unknown name and one known entry was decoded
\* over restored controls: the type and the bedrooms kept their values
C15_Witness ==
  /\ JustDecoded
  /\ search = "foo=bar&budget=50-100"
  /\ sel = [EmptySelection EXCEPT !.propertyType = "apartment", !.bhk = "4",
                                  !.budget = "50-100"]

----------------------------------------------------------------------------
(* C16 *)

\* the block of facet f entered with showProperty true
FacetPasses(f, r, card) ==
  CASE f = "propertyType" -> matchesPropertyType(r, card)
    [] f = "budget"       -> matchesBudget(r, card)
    [] f = "bhk"          -> matchesBedrooms(r, card)
    [] f = "location"     -> matchesLocation(r, card)
    [] f = "possession"   -> matchesPossession(r, card)
    [] f = "amenities"    -> matchesAmenity(r, card)

\* C16 as stated: after the decode a control is empty exactly when the query
\* does not hold its parameter
C16_AbsentIffUnconstrained ==
  JustDecoded => \A f \in Facets : (sel[f] = "") <=> (QueryValue(f) = Null)

\* C16 amended: after the decode a control is empty, and its block then passes
\* every card, exactly when the query does not hold its parameter, holds it
\* with an empty value, or holds a value the select has no option for; any
\* other parameter value is the value of its control.
C16_AbsentOrEmpty ==
  JustDecoded =>
    \A f \in Facets :
      IF \/ QueryValue(f) \in {Null, ""}
         \/ f \in SelectFacets /\ QueryValue(f) \notin options[f]
      THEN /\ sel[f] = ""
           /\ \A i \in 1..Len(cards) : FacetPasses(f, ReadControls(sel), cards[i])
      ELSE sel[f] = QueryValue(f)

\* the query type=&budget=100-250&bhk=4 leaves the type control empty
C16_Witness ==
  /\ JustDecoded
  /\ QueryValue("propertyType") = ""
  /\ sel.propertyType = ""
  /\ sel.budget = "100-250" /\ sel.bhk = "4"

----------------------------------------------------------------------------
(* C18 *)

\* C18: hasFiltersApplied is true exactly when one of the six control values
\* is not empty; after a run on properties.html #clear-filters is hidden
\* exactly when all six values the run read are empty.
C18_HasFiltersApplied ==
  (lastRun.ran /\ page = "properties") =>
    /\ hasFiltersApplied(lastRun.sel) <=> (\E f \in Facets : lastRun.sel[f] # "")
    /\ clearHidden <=> (\A f \in Facets : lastRun.sel[f] = "")

\* a run that read an amenity and no other value shows #clear-filters
C18_Witness ==
  /\ lastRun.ran /\ page = "properties"
  /\ lastRun.sel.amenities # ""
  /\ \A f \in Facets \ {"amenities"} : lastRun.sel[f] = ""
  /\ ~clearHidden

----------------------------------------------------------------------------
(* C20 *)

\* C20: the first filterProperties run in a document of properties.html comes
\* after the DOMContentLoaded handlers, and the controls then hold what
\* applyUrlFilters made of the query and of the empty controls.
C20_DecodeBeforeFirstRun ==
  [][(~lastRun.ran /\ lastRun'.ran /\ page' = "properties")
       => (loaded /\ sel = applyUrlFilters(search, EmptySelection))]_vars

\* the first run of a document opened with a query read the decoded selection
C20_Witness ==
  /\ page = "properties" /\ search # ""
  /\ lastRun.ran /\ events = 0
  /\ lastRun.sel = applyUrlFilters(search, EmptySelection)
  /\ lastRun.sel # EmptySelection

----------------------------------------------------------------------------
(* C17 *)

\* the label of each facet in the banner
FacetLabel(f) ==
  CASE f = "propertyType" -> "Type"
    [] f = "budget"       -> "Budget"
    [] f = "bhk"          -> "BHK"
    [] f = "location"     -> "Location"
    [] f = "possession"   -> "Status"
    [] f = "amenities"    -> "Amenities"

\* a value as the statement renders it: through the table of its facet, as it
\* is when the table has no entry for it
RenderedAsStated(f, v) ==
  IF f = "budget" /\ v \in DOMAIN budgetLabels THEN budgetLabels[v]
  ELSE IF f = "amenities" /\ v \in DOMAIN amenityLabels THEN amenityLabels[v]
  ELSE v

\* one "Label: value" string for each of the first k facets that has a value
RECURSIVE LabelsAsStated(_, _)
LabelsAsStated(s, k) ==
  IF k = 0 THEN <<>>
  ELSE LabelsAsStated(s, k - 1)
       \o (IF s[FacetOrder[k]] # ""
           THEN <<FacetLabel(FacetOrder[k]) \o ": "
                  \o RenderedAsStated(FacetOrder[k], s[FacetOrder[k]])>>
           ELSE <<>>)

\* C17: getActiveFilters returns one "Label: value" string for each control
\* that has a value, in the order Type, Budget, BHK, Location, Status,
\* Amenities, the budget and the amenity through their label tables and a
\* value without a table entry as it is; the banner shows that list.
C17_ActiveFilters ==
  (lastRun.ran /\ page = "properties") =>
    /\ getActiveFilters(lastRun.sel) = LabelsAsStated(lastRun.sel, Len(FacetOrder))
    /\ activeFilters =
         (IF lastRun.sel = EmptySelection THEN ""
          ELSE "(" \o Join(LabelsAsStated(lastRun.sel, Len(FacetOrder)), ", ") \o ")")

\* a budget option no label table names is rendered as it is, next to an
\* amenity rendered through its table
C17_Witness ==
  /\ lastRun.ran /\ page = "properties"
  /\ lastRun.sel = [EmptySelection EXCEPT !.budget = "2000+", !.amenities = "pool"]
  /\ activeFilters = "(Budget: 2000+, Amenities: Swimming Pool)"

----------------------------------------------------------------------------
(* C19 *)

\* C19: no handler of the filtering ends in an error, whatever the query and
\* the values of the controls: the decode of every query runs to its end,
\* where it starts the timer of the first evaluation.
C19_NoError ==
  /\ ~raised
  /\ JustDecoded => timers = 1

\* a query with a value no table names and a second parameter has been
\* decoded and evaluated, and no error was raised
C19_Witness ==
  /\ page = "properties" /\ search = "budget=abc&status=ready"
  /\ lastRun.ran /\ lastEvent = "timer" /\ timers = 0
  /\ lastRun.sel.possession = "ready"
  /\ ~raised

----------------------------------------------------------------------------
(* C21 *)

\* the events of a visitor that call filterProperties
UserEvents == {"change", "submit", "clear"}

\* C21: when the handling of a change of a control, of a submit of the form or
\* of a click on #clear-filters has ended, every card has the display that
\* filterProperties gives it for the values the controls hold now, and on
\* properties.html the count, the summary and the visibility of #clear-filters
\* are those of these values.
C21_ReEvaluates ==
  lastEvent \in UserEvents =>
    /\ lastRun.ran /\ lastRun.sel = sel
    /\ display = ForEachCard(cards, ReadControls(sel)).display
    /\ page = "properties" =>
         /\ resultsCount = ForEachCard(cards, ReadControls(sel)).visibleCount
         /\ activeFilters = ActiveFiltersText(sel)
         /\ clearHidden = ~hasFiltersApplied(sel)

\* a visitor has changed a control of properties.html and a card is hidden
C21_Witness ==
  /\ lastEvent = "change" /\ page = "properties" /\ ~sent.made
  /\ sel # EmptySelection
  /\ \E i \in 1..Len(cards) : ~Shown(i)
  /\ \E j \in 1..Len(cards) : Shown(j)
  /\ ~clearHidden

----------------------------------------------------------------------------
(* C22 *)

\* a step in which filterProperties runs: a handled event or the timer
RunStep ==
  /\ called'
  /\ events' # events \/ timers' # timers

\* C22: a filterProperties run on the control values and the cards that the
\* run before it had leaves every display, the count, the summary and the
\* visibility of #clear-filters as that run left them.
C22_Idempotent ==
  [][(RunStep /\ lastRun.ran /\ lastRun.sel = sel /\ sel' = sel)
       => /\ display' = display
          /\ page = "properties" =>
               /\ resultsCount' = resultsCount
               /\ activeFilters' = activeFilters
               /\ clearHidden' = clearHidden]_vars

\* a submit has repeated the run of the event before it, a card is hidden
C22_Witness ==
  /\ lastEvent = "submit" /\ page = "properties" /\ ~sent.made
  /\ events = 2
  /\ lastRun.sel = sel /\ sel # EmptySelection
  /\ resultsCount = 1
  /\ \E i \in 1..Len(cards) : ~Shown(i)

----------------------------------------------------------------------------
(* C23 *)

\* the cards shown, in document order
VisibleListings(cs, d) ==
  [k \in 1..Len(VisiblePositions(d)) |-> cs[VisiblePositions(d)[k]]]

\* a is b with some of its elements left out
RECURSIVE IsSubsequence(_, _)
IsSubsequence(a, b) ==
  IF a = <<>> THEN TRUE
  ELSE IF b = <<>> THEN FALSE
  ELSE IF Head(a) = Head(b) THEN IsSubsequence(Tail(a), Tail(b))
  ELSE IsSubsequence(a, Tail(b))

\* C23: the cards a filterProperties run leaves shown are, in document order,
\* cards of the document before the run in the order they had there: the run
\* moves no card.
C23_OrderPreserved ==
  [][RunStep => /\ cards' = cards
                /\ IsSubsequence(VisibleListings(cards', display'), cards)]_vars

\* a run under a selection has left two cards shown
C23_Witness ==
  /\ lastRun.ran /\ lastRun.sel # EmptySelection
  /\ Len(VisiblePositions(display)) >= 2
  /\ VisibleListings(cards, display) = cards

----------------------------------------------------------------------------
(* C24 *)

\* C24: after a filterProperties run on properties.html the count shown is the
\* number of cards shown, and a card is shown exactly when each of the six
\* blocks passes it.
C24_CountIsVisible ==
  (lastRun.ran /\ page = "properties") =>
    /\ resultsCount = Cardinality({i \in 1..Len(cards) : Shown(i)})
    /\ \A i \in 1..Len(cards) :
         Shown(i) <=> \A f \in Facets : FacetPasses(f, Read, cards[i])

\* a run has shown one card and hidden one
C24_Witness ==
  /\ lastRun.ran /\ page = "properties"
  /\ resultsCount = 1
  /\ \E i \in 1..Len(cards) : Shown(i)
  /\ \E j \in 1..Len(cards) : ~Shown(j)

----------------------------------------------------------------------------
(* C25 *)

\* C25: a filterProperties run leaves the cards, the query and the values of
\* the controls as they are: the values it read are the values the controls
\* hold after it, a run of the timer or of a submit changes no control, and
\* the displays after it are those of these values and cards alone.
C25_Frame ==
  [][RunStep =>
       /\ cards' = cards /\ search' = search /\ controls' = controls
       /\ lastRun'.sel = sel'
       /\ lastEvent' \in {"timer", "submit"} => sel' = sel
       /\ display' = ForEachCard(cards, ReadControls(sel')).display]_vars

\* the timer's run has read the location Miami and the control still holds it
C25_Witness ==
  /\ lastEvent = "timer" /\ page = "properties"
  /\ sel.location = "Miami"
  /\ lastRun.sel = sel
  /\ \E i \in 1..Len(cards) : ~Shown(i)

----------------------------------------------------------------------------
(* C26 *)

\* C26: on properties.html the DOMContentLoaded handlers evaluate nothing and
\* leave a timer pending; while nothing has run every card is still shown,
\* with the decoded selection already in the controls; the pending timer does
\* fire in the document that started it, unless a navigation has replaced that
\* document first, and its run gives every card the display of the values the
\* controls hold at that moment.
C26_DeferredRun ==
  /\ [][(~loaded /\ loaded' /\ page = "properties")
          => (timers' > 0 /\ ~lastRun'.ran /\ display' = display)]_vars
  /\ [](JustDecoded =>
          /\ sel = applyUrlFilters(search, EmptySelection)
          /\ \A i \in 1..Len(cards) : display[i] # "none")
  /\ [][(timers' < timers /\ loaded')
          => /\ lastRun'.sel = sel
             /\ display' = ForEachCard(cards, ReadControls(sel)).display]_vars
  /\ (page = "properties" /\ timers > 0)
       ~> ((timers = 0 /\ lastRun.ran) \/ ~loaded)

\* the timer of a document opened with a query has run and hidden a card
C26_Witness ==
  /\ page = "properties" /\ search # "" /\ ~sent.made
  /\ lastEvent = "timer" /\ events = 0 /\ timers = 0
  /\ lastRun.sel = sel /\ sel # EmptySelection
  /\ \E i \in 1..Len(cards) : ~Shown(i)

----------------------------------------------------------------------------
(* C27 *)

\* C27: when clearAllFilters has ended all six controls are empty, every card
\* is shown, the count is the number of cards, hasFiltersApplied is false,
\* #clear-filters is hidden and the summary is empty.
C27_ClearAll ==
  lastEvent = "clear" =>
    /\ sel = EmptySelection
    /\ \A i \in 1..Len(cards) : Shown(i)
    /\ resultsCount = Len(cards)
    /\ ~hasFiltersApplied(sel)
    /\ clearHidden
    /\ activeFilters = ""

\* the selection of a query with all six parameters has been cleared
C27_Witness ==
  /\ lastEvent = "clear"
  /\ \A f \in Facets : Truthy(QueryValue(f))
  /\ sel = EmptySelection
  /\ Len(cards) >= 2
  /\ resultsCount = Len(cards)

----------------------------------------------------------------------------
(* C28 *)

\* C28: a card shown by a run is also shown under the values the run read with
\* any one of the non-empty ones emptied.
C28_Monotone ==
  lastRun.ran =>
    \A f \in Facets :
      lastRun.sel[f] # "" =>
        \A i \in 1..Len(cards) : Shown(i) => OthersPass(i, f)

\* under a type and a budget one card is shown, and a card that the type
\* alone hides stays hidden
C28_Witness ==
  /\ lastRun.ran
  /\ lastRun.sel.propertyType # "" /\ lastRun.sel.budget # ""
  /\ \E i \in 1..Len(cards) : Shown(i)
  /\ \E j \in 1..Len(cards) :
       /\ ~Shown(j)
       /\ ~ShowProperty(cards[j], ReadControls([lastRun.sel EXCEPT !.budget = ""]))
       /\ Truthy(cards[j].priceRange)
       /\ checkBudgetMatch(lastRun.sel.budget, cards[j].priceRange)

----------------------------------------------------------------------------
(* C29 *)

\* C29: applyUrlFilters assigns to a control the value of its parameter when
\* the query holds one that is not empty (a select is then left at that value,
\* or empty when it has no option for it), and leaves every other control
\* with the value it had.
C29_DecodeFrame ==
  [][(~loaded /\ loaded' /\ page = "properties")
       => \A f \in Facets :
            sel'[f] = (IF Truthy(QueryValue(f))
                       THEN SetValue(f, QueryValue(f)) ELSE sel[f])]_vars

\* the query set the budget, type and bedrooms kept the values they had
C29_Witness ==
  /\ JustDecoded
  /\ search = "budget=1000%2B"
  /\ sel = [EmptySelection EXCEPT !.propertyType = "apartment", !.bhk = "4",
                                  !.budget = "1000+"]

----------------------------------------------------------------------------
(* C30 *)

\* C30: hasFiltersApplied is true exactly when getActiveFilters returns an
\* entry; after a run on properties.html #clear-filters is shown exactly when
\* the summary is not empty.
C30_ViewsAgree ==
  (lastRun.ran /\ page = "properties") =>
    /\ hasFiltersApplied(lastRun.sel) <=> Len(getActiveFilters(lastRun.sel)) > 0
    /\ ~clearHidden <=> activeFilters # ""

\* a run that read a location and nothing else shows the button and a summary
C30_Witness ==
  /\ lastRun.ran /\ page = "properties"
  /\ lastRun.sel.location # ""
  /\ \A f \in Facets \ {"location"} : lastRun.sel[f] = ""
  /\ ~clearHidden
  /\ activeFilters = "(Location: " \o lastRun.sel.location \o ")"

====
